---- MODULE Spec2Model ----
(***************************************************************************)
(* Model of the DeepResearch Agent front end (app/script.js with the DOM   *)
(* of the page it is loaded into).  The state is the two script globals,   *)
(* the browser's set of live interval timers, the network requests in      *)
(* flight and the part of the DOM the script writes.  Every action is one  *)
(* run of an event handler or of the continuation of an awaited promise;   *)
(* JavaScript is single threaded, so each runs to its next await atomically.*)
(* User events are delivered only to controls that are displayed and       *)
(* enabled, as the browser does.                                           *)
(*                                                                         *)
(* Strings of the page are written in ASCII: the texts of the source are   *)
(* Chinese; the transliterations are named after the source literal.       *)
(***************************************************************************)
EXTENDS Integers, Sequences, FiniteSets, TLC

VARIABLES
    activeResearchId,   \* script.js:32  let activeResearchId
    pollingTimer,       \* script.js:33  let pollingTimer
    timers,             \* handles of the intervals the browser keeps firing
    pendingStarts,      \* awaited POST /api/research/start, one entry per call
    pendingFetches,     \* awaited GET /api/research/status/<id>, one per tick
    dom                 \* the elements script.js reads and writes

vars == <<activeResearchId, pollingTimer, timers, pendingStarts, pendingFetches, dom>>

----------------------------------------------------------------------------
(* Bounds *)

MaxTimers == 2        \* jobs alive at the same time: start requests in flight
                      \* plus interval timers the browser keeps firing
MaxFetches == 2       \* status requests awaiting their answer at the same time:
                      \* setInterval fires the next tick whether or not the
                      \* fetch of the tick before has been answered

----------------------------------------------------------------------------
(* Values *)

Null == "null"
Undefined == "undefined"
NoTimer == 0          \* pollingTimer = null; interval handles are positive

\* x == null, as the operator ?? tests, in place of !x
FalsyNullish(x) == x \in {Null, Undefined}

\* !x for the values that occur
Falsy(x) == x \in {Null, Undefined, ""}

\* the four cards that carry the class d-none
Regions == {"form", "progress", "results", "error"}

\* what the user can have typed into #researchTopic: nothing, blanks only,
\* a topic, and the same topic with blanks around it
TopicInputs == {<<>>, <<" ">>, <<" ", " ">>, <<"a">>, <<" ", "a", " ">>}

\* String.prototype.trim
RECURSIVE TrimLeft(_)
TrimLeft(s) == IF s # <<>> /\ Head(s) = " " THEN TrimLeft(Tail(s)) ELSE s

RECURSIVE TrimRight(_)
TrimRight(s) ==
    IF s # <<>> /\ s[Len(s)] = " " THEN TrimRight(SubSeq(s, 1, Len(s) - 1)) ELSE s

\* the value taken as it is, trim forgotten
TrimNone(s) == s

Trim(s) == TrimRight(TrimLeft(s))

\* <input id="researchTopic" required>: the browser blocks the submit event
\* while the value is the empty string
RequiredOk(value) == value # <<>>

\* research ids the backend hands out; the script never compares two ids,
\* it only tests the stored one for being set and puts it into the status URL
ResearchIds == {"r1"}

\* bodies of a 2xx answer of POST /start: research_id present or missing
StartBodies == ResearchIds \cup {Undefined}

\* error.message of a failed request: thrown for !response.ok, or the
\* rejection of fetch itself
ErrorCauses == {"API error: 500", "Failed to fetch"}

\* progress of a status answer in thousandths (0.204 is 204)
ProgressValues == {204, 606}

\* the report of a completed job: its topic and its sources, one with a
\* title, one with an empty title, one without title
Reports ==
    { [topic |-> "t1", sources |-> << [url |-> "http://b", title |-> "B"],
                                      [url |-> "http://a", title |-> ""],
                                      [url |-> "http://c", title |-> Undefined] >>] }

\* JSON bodies of GET /status; report and error are optional: report is a
\* sequence of length at most one
StatusBodies ==
    [status : {"running"}, progress : ProgressValues, current_step : {"searching"},
     report : {<<>>}, error : {Undefined}]
    \cup
    [status : {"completed"}, progress : {1000}, current_step : {"writing"},
     report : {<<r>> : r \in Reports} \cup {<<>>}, error : {Undefined}]
    \cup
    [status : {"failed"}, progress : {204}, current_step : {"searching"},
     report : {<<>>}, error : {Undefined, "", "timeout"}]

----------------------------------------------------------------------------
(* Texts the script writes *)

EnterTopicMsg == <<"enter a research topic">>                 \* script.js:90
StartFailedMsgNoCause(cause) == <<"start failed: ", "">>         \* error.message dropped
StartFailedMsg(cause) == <<"start failed: ", cause>>          \* script.js:127
ResearchFailedMsg(err) == <<"research failed: ", err>>        \* script.js:154
StatusFailedMsg(cause) == <<"status fetch failed: ", cause>>  \* script.js:160
UnknownError == "unknown error"                               \* script.js:154
Initializing == "initializing..."                             \* script.js:203
StartLabel == "start research"                                \* script.js:131
StartingLabel == "starting..."                                \* script.js:96

----------------------------------------------------------------------------
(* DOM after the page is parsed *)

InitDom ==
    [ dNone |-> [r \in Regions |-> r # "form"],
      startBtnDisabled |-> FALSE,
      startBtnLabel |-> StartLabel,
      newResearchBtnDisabled |-> TRUE,
      progressTopic |-> <<>>,
      progressBar |-> 0,
      currentStep |-> "",
      errorMessage |-> <<>>,
      reportTopic |-> "",
      sources |-> <<>> ]

Visible(r) == ~dom.dNone[r]

----------------------------------------------------------------------------
(* Functions of script.js that write the DOM, as functions of the DOM *)

Hide(d, rs) == [d EXCEPT !.dNone = [r \in Regions |-> IF r \in rs THEN TRUE ELSE @[r]]]
Show(d, r0) == [d EXCEPT !.dNone[r0] = FALSE]

\* Math.floor in place of Math.round
RoundPercentFloor(p) == p \div 10

\* Math.round(progress * 100) on thousandths
RoundPercent(p) == (p + 5) \div 10

updateProgress(d, percentage, step) ==
    [d EXCEPT !.progressBar = percentage, !.currentStep = step]

\* showProgressView without the call of updateProgress(0, ...)
showProgressViewStaleBar(d, topic) ==
    [Show(Hide(d, {"form", "results", "error"}), "progress")
        EXCEPT !.progressTopic = topic]

showProgressView(d, topic) ==
    updateProgress(
        [Show(Hide(d, {"form", "results", "error"}), "progress")
            EXCEPT !.progressTopic = topic],
        0, Initializing)

updateProgressView(d, status) ==
    LET d1 == updateProgress(d, RoundPercent(status.progress), status.current_step)
    IN  IF status.status \in {"completed", "failed"}
        THEN [d1 EXCEPT !.newResearchBtnDisabled = FALSE]
        ELSE d1

\* the title taken without the fallback to the url
LinkTextTitleOnly(source) == source.title

\* source.title && source.title !== '' ? source.title : source.url
LinkText(source) ==
    IF ~Falsy(source.title) /\ source.title # "" THEN source.title ELSE source.url

\* showResults that goes back to the form when the report is missing
showResultsMissingToForm(d, status) ==
    IF status.report = <<>> THEN Show(Hide(d, {"progress", "results", "error"}), "form")
    ELSE LET rep == status.report[1]
         IN  [Show(Hide(d, {"progress", "error"}), "results")
                EXCEPT !.reportTopic = rep.topic,
                       !.sources = [i \in 1..Len(rep.sources) |->
                                       [href |-> rep.sources[i].url,
                                        text |-> LinkText(rep.sources[i])]]]

showResults(d, status) ==
    IF status.report = <<>> THEN d
    ELSE LET rep == status.report[1]
         IN  [Show(Hide(d, {"progress", "error"}), "results")
                EXCEPT !.reportTopic = rep.topic,
                       !.sources = [i \in 1..Len(rep.sources) |->
                                       [href |-> rep.sources[i].url,
                                        text |-> LinkText(rep.sources[i])]]]

showError(d, message) ==
    [Show(Hide(d, {"progress", "results"}), "error") EXCEPT !.errorMessage = message]

\* resetResearch without the line that hides the error card
resetViewKeepsError(d) ==
    [Show(Hide(d, {"progress", "results"}), "form")
        EXCEPT !.startBtnDisabled = FALSE, !.startBtnLabel = StartLabel]

\* the DOM part of resetResearch
resetView(d) ==
    [Show(Hide(d, {"progress", "results", "error"}), "form")
        EXCEPT !.startBtnDisabled = FALSE, !.startBtnLabel = StartLabel]

----------------------------------------------------------------------------
(* Timers *)

\* setInterval returns a handle no live interval has
NewHandle == CHOOSE h \in 1..(Cardinality(timers) + 1) : h \notin timers

\* stopPolling: the set of live intervals afterwards
stopPollingTimers == IF pollingTimer # NoTimer THEN timers \ {pollingTimer} ELSE timers

RemoveAt(s, i) == SubSeq(s, 1, i - 1) \o SubSeq(s, i + 1, Len(s))

----------------------------------------------------------------------------
Init ==
    /\ activeResearchId = Null
    /\ pollingTimer = NoTimer
    /\ timers = {}
    /\ pendingStarts = <<>>
    /\ pendingFetches = <<>>
    /\ dom = InitDom

\* the submit event reaches the form only through a displayed form whose
\* submit button is enabled
CanSubmit == Visible("form") /\ ~dom.startBtnDisabled

\* handleSubmitResearch up to its await
HandleSubmitResearch(value) ==
    /\ CanSubmit
    /\ RequiredOk(value)
    /\ LET topic == Trim(value)
       IN  IF topic = <<>>
           THEN /\ dom' = showError(dom, EnterTopicMsg)
                /\ UNCHANGED pendingStarts
           ELSE /\ Cardinality(timers) + Len(pendingStarts) < MaxTimers
                /\ dom' = [dom EXCEPT !.startBtnDisabled = TRUE,
                                      !.startBtnLabel = StartingLabel]
                /\ pendingStarts' = Append(pendingStarts, topic)
    /\ UNCHANGED <<activeResearchId, pollingTimer, timers, pendingFetches>>

\* handleSubmitResearch after the await, response.ok: lines 116-123
StartSucceeds(i, rid) ==
    /\ i \in 1..Len(pendingStarts)
    /\ rid \in StartBodies
    /\ pendingStarts' = RemoveAt(pendingStarts, i)
    /\ activeResearchId' = rid
    /\ dom' = showProgressView(dom, pendingStarts[i])
    /\ IF Falsy(rid)
       THEN UNCHANGED <<pollingTimer, timers>>
       ELSE /\ pollingTimer' = NewHandle
            /\ timers' = timers \cup {NewHandle}
    /\ UNCHANGED pendingFetches

\* handleSubmitResearch after the await, fetch rejected or !response.ok:
\* the catch block, lines 125-132
StartFails(i, cause) ==
    /\ i \in 1..Len(pendingStarts)
    /\ cause \in ErrorCauses
    /\ pendingStarts' = RemoveAt(pendingStarts, i)
    /\ dom' = [showError(dom, StartFailedMsg(cause))
                 EXCEPT !.startBtnDisabled = FALSE, !.startBtnLabel = StartLabel]
    /\ UNCHANGED <<activeResearchId, pollingTimer, timers, pendingFetches>>

\* the interval callback up to its await: one tick of a live timer
Tick(t) ==
    /\ t \in timers
    /\ Len(pendingFetches) < MaxFetches
    /\ pendingFetches' = Append(pendingFetches, activeResearchId)
    /\ UNCHANGED <<activeResearchId, pollingTimer, timers, pendingStarts, dom>>

\* the interval callback after the await, with a status body: lines 145-156
StatusArrives(i, status) ==
    /\ i \in 1..Len(pendingFetches)
    /\ status \in StatusBodies
    /\ pendingFetches' = RemoveAt(pendingFetches, i)
    /\ LET d1 == updateProgressView(dom, status)
       IN  IF status.status \in {"completed", "failed"}
           THEN /\ timers' = stopPollingTimers
                /\ pollingTimer' = NoTimer
                /\ dom' = IF status.status = "completed"
                          THEN showResults(d1, status)
                          ELSE showError(d1, ResearchFailedMsg(
                                   IF Falsy(status.error) THEN UnknownError
                                   ELSE status.error))
           ELSE /\ dom' = d1
                /\ UNCHANGED <<pollingTimer, timers>>
    /\ UNCHANGED <<activeResearchId, pendingStarts>>

\* the interval callback after the await, fetchResearchStatus threw:
\* the catch block, lines 157-161
StatusFails(i, cause) ==
    /\ i \in 1..Len(pendingFetches)
    /\ cause \in ErrorCauses
    /\ pendingFetches' = RemoveAt(pendingFetches, i)
    /\ timers' = stopPollingTimers
    /\ pollingTimer' = NoTimer
    /\ dom' = showError(dom, StatusFailedMsg(cause))
    /\ UNCHANGED <<activeResearchId, pendingStarts>>

\* a click reaches resetResearch through one of the three buttons init
\* binds it to, when the button is displayed and enabled
CanReset ==
    \/ Visible("progress") /\ ~dom.newResearchBtnDisabled
    \/ Visible("results")
    \/ Visible("error")

\* resetResearch without activeResearchId = null
resetResearchKeepsId ==
    /\ CanReset
    /\ timers' = stopPollingTimers
    /\ pollingTimer' = NoTimer
    /\ dom' = resetView(dom)
    /\ UNCHANGED <<activeResearchId, pendingStarts, pendingFetches>>

resetResearch ==
    /\ CanReset
    /\ timers' = stopPollingTimers
    /\ pollingTimer' = NoTimer
    /\ activeResearchId' = Null
    /\ dom' = resetView(dom)
    /\ UNCHANGED <<pendingStarts, pendingFetches>>

Next ==
    \/ \E value \in TopicInputs : HandleSubmitResearch(value)
    \/ \E i \in 1..MaxTimers, rid \in StartBodies : StartSucceeds(i, rid)
    \/ \E i \in 1..MaxTimers, cause \in ErrorCauses : StartFails(i, cause)
    \/ \E t \in 1..MaxTimers : Tick(t)
    \/ \E i \in 1..MaxFetches, status \in StatusBodies : StatusArrives(i, status)
    \/ \E i \in 1..MaxFetches, cause \in ErrorCauses : StatusFails(i, cause)
    \/ resetResearch

Spec == Init /\ [][Next]_vars

TypeOK ==
    /\ activeResearchId \in ResearchIds \cup {Null, Undefined}
    /\ pollingTimer \in timers \cup {NoTimer}
    /\ timers \subseteq 1..MaxTimers
    /\ Len(pendingStarts) <= MaxTimers
    /\ Len(pendingFetches) <= MaxFetches

----------------------------------------------------------------------------
(* Vocabulary of the properties *)

VisibleRegions == {r \in Regions : Visible(r)}

OnlyVisible(d, r0) == d.dNone = [r \in Regions |-> r # r0]

\* empty or whitespace-only, said without trim
Blank(value) == \A k \in 1..Len(value) : value[k] = " "

\* the region, and what it shows, of a finished job: the results card, or
\* the error card with a message other than the validation hint
Terminal ==
    \/ Visible("results")
    \/ Visible("error") /\ dom.errorMessage # EnterTopicMsg

TerminalView(d) ==
    <<d.dNone["results"], d.dNone["error"], d.errorMessage, d.reportTopic, d.sources>>

\* Idle of the polling controller: no start request awaited, no schedule,
\* no job id, no finished job on display
ControllerIdle ==
    /\ pendingStarts = <<>>
    /\ pollingTimer = NoTimer
    /\ activeResearchId = Null
    /\ ~Terminal

\* the regions and the progress fields
ProgressView(d) == <<d.dNone, d.progressTopic, d.progressBar, d.currentStep>>

\* the result of the i-th awaited status fetch arrives, body or error
FetchResolves(i) ==
    \/ \E status \in StatusBodies : StatusArrives(i, status)
    \/ \E cause \in ErrorCauses : StatusFails(i, cause)

\* the i-th awaited fetch was issued for a job the controller is no longer
\* polling: the schedule is gone or the stored id is another one
StaleFetch(i) == pollingTimer = NoTimer \/ pendingFetches[i] # activeResearchId

StartResolves ==
    \/ \E i \in 1..MaxTimers, rid \in StartBodies : StartSucceeds(i, rid)
    \/ \E i \in 1..MaxTimers, cause \in ErrorCauses : StartFails(i, cause)

----------------------------------------------------------------------------
(* C1: at most one recurring schedule is active at any time.  startPolling *)
(* overwrites pollingTimer without clearing it; two start requests can be  *)
(* awaited at once (reset from the error card re-enables the start button  *)
(* while the first is in flight), and both answers create an interval.     *)
C1_AtMostOneSchedule == Cardinality(timers) <= 1

(* C2: the result of a status fetch that arrives when the controller is no *)
(* longer polling for that job leaves the regions, the progress fields and *)
(* the timer as they are.  The callback applies every result.              *)
C2_StaleResultDiscarded ==
    [][\A i \in 1..Len(pendingFetches) :
          (StaleFetch(i) /\ FetchResolves(i))
              => UNCHANGED <<ProgressView(dom), pollingTimer, timers>>]_vars

(* C3: in every reachable state exactly one of the four regions is         *)
(* visible.  showError and showResults leave the form card as it is.       *)
C3_ExactlyOneRegion == Cardinality(VisibleRegions) = 1

(* C4: a submit issues a start request only when the controller is idle:   *)
(* not while a start request is in flight, not while polling, not after an *)
(* error or a completion before reset.                                     *)
C4_SubmitOnlyFromIdle ==
    [][Len(pendingStarts') > Len(pendingStarts) => ControllerIdle]_vars

(* C5: when a tick's fetch returns completed or failed the schedule is     *)
(* cancelled and no interval is left that could fire a further tick; a     *)
(* failed status, and a completed one with its report, put the terminal    *)
(* region on display.                                                      *)
C5_TerminalStatusEndsTicks ==
    [][\A i \in 1..Len(pendingFetches) : \A status \in StatusBodies :
          (status.status \in {"completed", "failed"} /\ StatusArrives(i, status))
              => /\ pollingTimer' = NoTimer
                 /\ timers' = {}
                 /\ status.status = "failed" => ~dom'.dNone["error"]
                 /\ (status.status = "completed" /\ status.report # <<>>)
                        => ~dom'.dNone["results"]]_vars

(* C6: once a terminal view is on display, which terminal card is shown    *)
(* and what it shows change only by resetResearch.                         *)
C6_TerminalViewStable ==
    [][(Terminal /\ ~resetResearch) => UNCHANGED TerminalView(dom)]_vars

(* C7: resetResearch, from whatever state it is called in, leaves the job  *)
(* id null, the timer handle null and its interval cancelled, the form     *)
(* region visible, the other three hidden and the start button enabled.    *)
C7_ResetPostState ==
    [][resetResearch =>
          /\ activeResearchId' = Null
          /\ pollingTimer' = NoTimer
          /\ pollingTimer \notin timers'
          /\ OnlyVisible(dom', "form")
          /\ ~dom'.startBtnDisabled]_vars

\* a job was shown in the progress card and reset has brought the form back
C7_Witness ==
    /\ dom.progressTopic # <<>>
    /\ OnlyVisible(dom, "form")
    /\ activeResearchId = Null
    /\ pollingTimer = NoTimer
    /\ ~dom.startBtnDisabled
    /\ ~dom.newResearchBtnDisabled

(* C8: after a reset no tick fires and no schedule becomes active until a  *)
(* later submit's start request has succeeded.  Intervals are created only *)
(* by the answer of an awaited start request and ticks are fired only by   *)
(* live intervals, so this is: reset leaves no awaited start request and   *)
(* no live interval behind.                                                *)
C8_ResetQuiesces ==
    [][resetResearch => (pendingStarts' = <<>> /\ timers' = {})]_vars

C10_FormHiddenAfterStart == [][StartResolves => dom'.dNone["form"]]_vars

(* C11: when the start request fails (fetch rejected or a non-2xx answer)  *)
(* the error region is on display with the start-failure prefix followed   *)
(* by the cause, the progress and results regions are hidden, and the      *)
(* failed request stores no job id and creates no schedule.                *)
C11_StartFailure ==
    [][\A i \in 1..Len(pendingStarts) : \A cause \in ErrorCauses :
          StartFails(i, cause)
              => /\ ~dom'.dNone["error"]
                 /\ dom'.dNone["progress"] /\ dom'.dNone["results"]
                 /\ dom'.errorMessage = <<"start failed: ", cause>>
                 /\ UNCHANGED <<activeResearchId, pollingTimer, timers>>]_vars

\* the first start request of a session has failed with HTTP 500
C11_Witness ==
    /\ Visible("error")
    /\ dom.errorMessage = <<"start failed: ", "API error: 500">>
    /\ activeResearchId = Null
    /\ pollingTimer = NoTimer
    /\ timers = {}
    /\ pendingStarts = <<>>

(* C12: when a tick's status fetch fails the schedule is cancelled in that *)
(* same step, the error region is shown, and no interval is left that      *)
(* could issue a further status request for the job.                       *)
C12_FetchFailureEndsPolling ==
    [][\A i \in 1..Len(pendingFetches) : \A cause \in ErrorCauses :
          StatusFails(i, cause)
              => /\ pollingTimer' = NoTimer
                 /\ timers' = {}
                 /\ ~dom'.dNone["error"]]_vars

(* C13: a failed status puts the error region on display (progress and     *)
(* results hidden) with the fixed prefix followed by the backend's error   *)
(* string, or by the unknown-error text when the error field is absent or  *)
(* empty; a running status never changes which regions are displayed nor   *)
(* the error message.                                                      *)
C13_FailedStatusMessage ==
    [][\A i \in 1..Len(pendingFetches) :
          /\ \A status \in {b \in StatusBodies : b.status = "failed"} :
                StatusArrives(i, status)
                    => /\ ~dom'.dNone["error"]
                       /\ dom'.dNone["progress"] /\ dom'.dNone["results"]
                       /\ dom'.errorMessage =
                             <<"research failed: ",
                               IF status.error \in {Undefined, ""}
                               THEN "unknown error" ELSE status.error>>
          /\ \A status \in {b \in StatusBodies : b.status = "running"} :
                StatusArrives(i, status)
                    => /\ dom'.dNone = dom.dNone
                       /\ dom'.errorMessage = dom.errorMessage]_vars

\* a running tick was shown, then the job failed with error "timeout"
C13_Witness ==
    /\ VisibleRegions = {"error"}
    /\ dom.errorMessage = <<"research failed: ", "timeout">>
    /\ dom.progressBar = 20
    /\ pollingTimer = NoTimer
    /\ timers = {}
    /\ pendingFetches = <<>>

\* the status bodies by their status field
BodiesWith(st) == {b \in StatusBodies : b.status = st}

(* C14 as claimed: a completed status without report renders nothing of a  *)
(* report and brings the view back to Idle, only the form region visible.  *)
C14_MissingReportToIdle ==
    [][\A i \in 1..Len(pendingFetches) :
          \A status \in {b \in BodiesWith("completed") : b.report = <<>>} :
             StatusArrives(i, status)
                 => /\ OnlyVisible(dom', "form")
                    /\ dom'.reportTopic = dom.reportTopic
                    /\ dom'.sources = dom.sources]_vars

(* C14 amended: a completed status without report renders nothing of a     *)
(* report and leaves the visible regions as they are (the progress region  *)
(* of the job stays on display, it does not return to Idle); the schedule  *)
(* is cancelled and the reset button of the progress region is enabled.    *)
C14_MissingReportNoOp ==
    [][\A i \in 1..Len(pendingFetches) :
          \A status \in {b \in BodiesWith("completed") : b.report = <<>>} :
             StatusArrives(i, status)
                 => /\ dom'.dNone = dom.dNone
                    /\ dom'.reportTopic = dom.reportTopic
                    /\ dom'.sources = dom.sources
                    /\ dom'.errorMessage = dom.errorMessage
                    /\ pollingTimer' = NoTimer
                    /\ ~dom'.newResearchBtnDisabled]_vars

\* the job has completed without report: the progress card is still shown,
\* at 100 percent, and no report was ever rendered
C14_Witness ==
    /\ VisibleRegions = {"progress"}
    /\ dom.progressBar = 100
    /\ dom.reportTopic = ""
    /\ dom.sources = <<>>
    /\ pollingTimer = NoTimer
    /\ ~dom.newResearchBtnDisabled

(* C15: a running status changes only the percentage, which becomes the    *)
(* integer nearest to progress * 100, and the step text; the regions, the  *)
(* rest of the DOM, the stored job id and the schedule stay as they are.   *)
C15_RunningTickFrame ==
    [][\A i \in 1..Len(pendingFetches) : \A status \in BodiesWith("running") :
          StatusArrives(i, status)
              => /\ 10 * dom'.progressBar - 5 <= status.progress
                 /\ status.progress < 10 * dom'.progressBar + 5
                 /\ dom'.currentStep = status.current_step
                 /\ [dom' EXCEPT !.progressBar = 0, !.currentStep = ""]
                       = [dom EXCEPT !.progressBar = 0, !.currentStep = ""]
                 /\ UNCHANGED <<activeResearchId, pollingTimer, timers>>]_vars

\* polling goes on after a running status with progress 0.606 was shown
C15_Witness ==
    /\ VisibleRegions = {"progress"}
    /\ dom.progressBar = 61
    /\ dom.currentStep = "searching"
    /\ pollingTimer # NoTimer
    /\ activeResearchId \in ResearchIds

(* C16 as claimed: whenever the controller is in a terminal state or Idle  *)
(* (only the form region visible) the stored job id is null.               *)
C16_IdNullOutsidePolling ==
    (Terminal \/ VisibleRegions = {"form"}) => activeResearchId = Null

(* C16 amended: a job id is stored from a successful start until reset; a  *)
(* terminal outcome keeps it.  The stored id goes back to null only by     *)
(* resetResearch, and whenever the form region is visible it is null.      *)
C16_IdClearedOnlyByReset ==
    [][/\ ~dom'.dNone["form"] => activeResearchId' = Null
       /\ (activeResearchId # Null /\ activeResearchId' = Null) => resetResearch]_vars

\* the report of a job is on display and the id of the job is still stored
C16_Witness ==
    /\ VisibleRegions = {"results"}
    /\ pollingTimer = NoTimer
    /\ activeResearchId \in ResearchIds

(* C17: once a report has been rendered, the answer of a later start       *)
(* request yields a view with only the progress region visible (the        *)
(* results region hidden), showing the topic of that request, 0 percent    *)
(* and the initializing text.                                              *)
C17_NoLeakIntoProgress ==
    [][\A i \in 1..Len(pendingStarts) : \A rid \in StartBodies :
          (dom.reportTopic # "" /\ StartSucceeds(i, rid))
              => /\ OnlyVisible(dom', "progress")
                 /\ dom'.progressTopic = pendingStarts[i]
                 /\ dom'.progressBar = 0
                 /\ dom'.currentStep = "initializing..."]_vars

\* a report was rendered before, and the new job is shown at its start
C17_Witness ==
    /\ dom.reportTopic # ""
    /\ VisibleRegions = {"progress"}
    /\ dom.progressTopic # <<>>
    /\ dom.progressBar = 0
    /\ dom.currentStep = "initializing..."
    /\ pollingTimer # NoTimer
    /\ pendingFetches = <<>>

(* C18: for every source of a completed report the rendered entry shows    *)
(* the title when it is present and not empty and the url otherwise, links *)
(* to the url, and the entries come in the order of the report's sources.  *)
C18_SourceDisplayText ==
    [][\A i \in 1..Len(pendingFetches) :
          \A status \in {b \in BodiesWith("completed") : b.report # <<>>} :
             StatusArrives(i, status)
                 => LET srcs == status.report[1].sources
                    IN  /\ Len(dom'.sources) = Len(srcs)
                        /\ \A k \in 1..Len(srcs) :
                              /\ dom'.sources[k].href = srcs[k].url
                              /\ dom'.sources[k].text =
                                    IF srcs[k].title \in {Undefined, ""}
                                    THEN srcs[k].url ELSE srcs[k].title]_vars

\* a report is on display: a titled source, then the two fallbacks to the url
C18_Witness ==
    /\ Visible("results")
    /\ Len(dom.sources) = 3
    /\ dom.sources[1].text = "B"
    /\ dom.sources[2].text = "http://a"
    /\ dom.sources[3].text = "http://c"

----------------------------------------------------------------------------
(* The program with a backend that answers: no completed status comes      *)
(* without its report, the interval timers keep firing (setInterval), every*)
(* awaited status fetch is answered, and of the answers given again and    *)
(* again one is eventually completed, failed or an error.                  *)

AnsweringBodies == {b \in StatusBodies : b.status = "completed" => b.report # <<>>}

TerminalAnswer ==
    \E i \in 1..MaxFetches :
       \/ \E status \in AnsweringBodies :
             status.status \in {"completed", "failed"} /\ StatusArrives(i, status)
       \/ \E cause \in ErrorCauses : StatusFails(i, cause)

NextAnswering ==
    \/ \E value \in TopicInputs : HandleSubmitResearch(value)
    \/ \E i \in 1..MaxTimers, rid \in StartBodies : StartSucceeds(i, rid)
    \/ \E i \in 1..MaxTimers, cause \in ErrorCauses : StartFails(i, cause)
    \/ \E t \in 1..MaxTimers : Tick(t)
    \/ \E i \in 1..MaxFetches, status \in AnsweringBodies : StatusArrives(i, status)
    \/ \E i \in 1..MaxFetches, cause \in ErrorCauses : StatusFails(i, cause)
    \/ resetResearch

FairSpec ==
    /\ Init
    /\ [][NextAnswering]_vars
    /\ WF_vars(\E t \in 1..MaxTimers : Tick(t))
    /\ WF_vars(\E i \in 1..MaxFetches :
                  \/ \E status \in AnsweringBodies : StatusArrives(i, status)
                  \/ \E cause \in ErrorCauses : StatusFails(i, cause))
    /\ SF_vars(TerminalAnswer)

(* C19: with an answering backend every job whose polling has started      *)
(* eventually reaches a state where the results or the error region is     *)
(* visible and no interval timer is active.  A job the user has given up   *)
(* by resetResearch is counted as ended too (the form region is visible),  *)
(* so that only a timer that stays active refutes the statement.           *)
C19_EveryJobEnds ==
    (pollingTimer # NoTimer)
        ~> ((Visible("results") \/ Visible("error") \/ Visible("form")) /\ timers = {})

(* C20: while a job is running (the progress region is visible and the     *)
(* schedule is still on, so no completed or failed status has arrived      *)
(* since its start) the reset button of the progress region is disabled.   *)
C20_ResetDisabledWhileRunning ==
    (Visible("progress") /\ pollingTimer # NoTimer) => dom.newResearchBtnDisabled

(* C21: at most one status fetch is in flight at any time.  The interval   *)
(* callback has no guard: setInterval fires it every two seconds, and a    *)
(* tick whose predecessor still awaits fetchResearchStatus issues a second *)
(* request; the answers are applied in the order they arrive.              *)
C21_OneFetchInFlight == Len(pendingFetches) <= 1

(* C22: no reachable state is a dead end: a start request or a status      *)
(* fetch is pending, or an interval timer is active, or a displayed region *)
(* holds an enabled submit or reset control.  A start answer without       *)
(* research_id shows the progress region, whose reset button is disabled,  *)
(* and startPolling returns without creating a timer.                      *)
C22_NoDeadEnd ==
    \/ pendingStarts # <<>>
    \/ pendingFetches # <<>>
    \/ timers # {}
    \/ CanSubmit
    \/ CanReset
====
